---- MODULE Spec2Model ----
(***************************************************************************)
(* Decoding of one PrimitiveGroup of an OSM PBF PrimitiveBlock into Node,  *)
(* Way and Relation objects (src/groups.rs).                               *)
(*                                                                         *)
(* The iterators of groups.rs are modelled as records of cursors over the  *)
(* arrays of the group; one action is one call of an iterator's next().    *)
(* A Rust panic (slice index out of bounds) is the terminal state          *)
(* panicked = TRUE: the unwinding ends the iteration.                      *)
(***************************************************************************)
EXTENDS Integers, Sequences, FiniteSets, TLC

VARIABLES
    block,       \* the PrimitiveBlock: stringtable, granularity, offsets
    group,       \* the PrimitiveGroup: nodes, dense, ways, relations
    chain,       \* which iterator of the Chain of iter() is being advanced
    simple,      \* SimpleNodes: position of its slice iterator
    dense,       \* DenseNodes: cursors, running totals and its DenseInfoIter
    wayit,       \* Ways: position of its slice iterator
    relit,       \* Relations: position of its slice iterator
    out,         \* the OsmObj yielded so far, in order
    panicked     \* TRUE once a next() has panicked

vars == <<block, group, chain, simple, dense, wayit, relit, out, panicked>>

(***************************************************************************)
(* Option<T>: None is the empty sequence, Some(v) the one-element one.     *)
(***************************************************************************)
None == <<>>
Some(v) == <<v>>

(***************************************************************************)
(* i64 values that are scaled to coordinates are kept as two limbs <<h,l>> *)
(* standing for h * 2^16 + l with 0 <= l < 2^16, so that values beyond the *)
(* range of i32 can be written down and the cast `as i32` can be computed. *)
(***************************************************************************)
LimbBase == 2^16

Norm(h, l) == <<h + (l \div LimbBase), l % LimbBase>>

I64(x) == Norm(0, x)

i64_add(a, b) == Norm(a[1] + b[1], a[2] + b[2])

i64_mul(g, a) == Norm(g * a[1], g * a[2])

i64_neg(a) == Norm(-a[1], -a[2])

\* `/ 100` rounding toward minus infinity.
i64_div100_floor(a) ==
    Norm(a[1] \div 100, ((a[1] % 100) * LimbBase + a[2]) \div 100)

\* Rust's `/ 100` on i64: the quotient truncated toward zero.
i64_div100(a) ==
    LET pos(p) == Norm(p[1] \div 100, ((p[1] % 100) * LimbBase + p[2]) \div 100)
    IN  IF a[1] >= 0 THEN pos(a) ELSE i64_neg(pos(i64_neg(a)))

\* Rust's `as i32` on i64: the low 32 bits, read as two's complement.
as_i32(a) == (((a[1] + 2^15) % 2^16) - 2^15) * LimbBase + a[2]

(***************************************************************************)
(* Strings.  A string-table entry is a sequence of bytes; a decoded String *)
(* is a sequence of code points.  The table entries of the model hold      *)
(* ASCII bytes and the byte 255, which is invalid wherever it stands in    *)
(* UTF-8 and is replaced by U+FFFD (65533) on its own.                     *)
(***************************************************************************)
from_utf8_lossy(bytes) ==
    [i \in 1..Len(bytes) |-> IF bytes[i] >= 128 THEN 65533 ELSE bytes[i]]

\* get_s()[k]: the slice index panics when k is out of range.  A negative
\* i32 cast `as usize` is far above any table length.
index_panics(k, b) == k < 0 \/ k >= Len(b.stringtable)

make_string(k, b) == from_utf8_lossy(b.stringtable[k + 1])

make_lat(c, b) ==
    as_i32(i64_div100(i64_add(b.lat_offset, i64_mul(b.granularity, c))))

make_lon(c, b) ==
    as_i32(i64_div100(i64_add(b.lon_offset, i64_mul(b.granularity, c))))

(***************************************************************************)
(* The inputs.  Bounds on the lengths of the arrays of a group:            *)
(***************************************************************************)
MaxTags == 2        \* keys and vals of a sparse entity
MaxRefs == 3        \* refs of a way
MaxMembers == 2     \* memids, types and roles_sid of a relation
MaxDense == 3       \* columns of the dense bundle
MaxKv == 5          \* keys_vals of the dense bundle
MaxEntities == 2    \* entities of each kind in a group of mixed kinds
MaxPairs == 2       \* nodes encoded both as sparse nodes and as a dense bundle

SeqsUpTo(S, n) == UNION {[1..k -> S] : k \in 0..n}

Take(s, n) == SubSeq(s, 1, IF n <= Len(s) THEN n ELSE Len(s))

\* Entry 0 is the empty string by convention; entry 2 is not UTF-8 at all
\* and entry 4 ends in an invalid byte.
StringTable == << <<>>, <<117>>, <<255>>, <<107>>, <<118, 255>> >>

DefaultBlock ==
    [stringtable |-> StringTable, granularity |-> 100,
     lat_offset |-> I64(0), lon_offset |-> I64(0)]

\* String-table indices: in range, and one past the end (and, where the
\* field is signed, negative).
TagSids == {0, 3, 4, 5}
KvSids == {0, 3, 4, 5}
RoleSids == {1, 5}
Deltas == {10, 5, -3}
MemberDeltas == {5, -3}
WireTypes == {0, 1, 2, 3}

\* An osmformat::Info whose six optional fields are the given Options.
InfoMsg(v, t, c, u, s, vis) ==
    [has_version   |-> v # None,   version   |-> IF v # None THEN v[1] ELSE 0,
     has_timestamp |-> t # None,   timestamp |-> IF t # None THEN t[1] ELSE 0,
     has_changeset |-> c # None,   changeset |-> IF c # None THEN c[1] ELSE 0,
     has_uid       |-> u # None,   uid       |-> IF u # None THEN u[1] ELSE 0,
     has_user_sid  |-> s # None,   user_sid  |-> IF s # None THEN s[1] ELSE 0,
     has_visible   |-> vis # None, visible   |-> IF vis # None THEN vis[1] ELSE FALSE]

OptInts == {None, Some(0), Some(1)}
OptSids == {None, Some(0), Some(1), Some(5)}
OptBools == {None, Some(FALSE), Some(TRUE)}

InfoMsgs ==
    {InfoMsg(v, t, c, u, s, vis) :
        v \in OptInts, t \in OptInts, c \in OptInts, u \in OptInts,
        s \in OptSids, vis \in OptBools}

\* An entity with or without the info sub-message: has_info and get_info.
InfoFields == {[has_info |-> TRUE, info |-> m] : m \in InfoMsgs}
              \cup {[has_info |-> FALSE,
                     info |-> InfoMsg(None, None, None, None, None, None)]}

NoInfoFields == [has_info |-> FALSE,
                 info |-> InfoMsg(None, None, None, None, None, None)]

MkNode(id, lat, lon, keys, vals, i) ==
    [id |-> id, lat |-> lat, lon |-> lon, keys |-> keys, vals |-> vals,
     has_info |-> i.has_info, info |-> i.info]

MkWay(id, refs, keys, vals, i) ==
    [id |-> id, refs |-> refs, keys |-> keys, vals |-> vals,
     has_info |-> i.has_info, info |-> i.info]

MkRelation(id, memids, types, roles_sid, keys, vals, i) ==
    [id |-> id, memids |-> memids, types |-> types, roles_sid |-> roles_sid,
     keys |-> keys, vals |-> vals, has_info |-> i.has_info, info |-> i.info]

EmptyDense ==
    [id |-> <<>>, lat |-> <<>>, lon |-> <<>>, keys_vals |-> <<>>,
     denseinfo |-> None]

MkGroup(nodes, d, ws, rels) ==
    [nodes |-> nodes, dense |-> d, ways |-> ws, relations |-> rels]

\* iter() chaining ways() before dense_nodes().
iter_chain_ways_first == <<"simple", "ways", "dense", "relations">>

\* iter() chains nodes() = simple_nodes().chain(dense_nodes()), then ways(),
\* then relations().
iter_chain == <<"simple", "dense", "ways", "relations">>

\* The state after iter(g, b): the four iterators as their constructors
\* (simple_nodes, dense_nodes, ways, relations) make them, nothing yielded.
Start(g, b) ==
    /\ block = b
    /\ group = g
    /\ chain = iter_chain[1]
    /\ simple = [iter |-> 0]
    /\ dense = [dids |-> 0, dlats |-> 0, dlons |-> 0, keys_vals |-> 0,
                cur_id |-> 0, cur_lat |-> I64(0), cur_lon |-> I64(0),
                denseinfo |-> [cur_timestamp |-> 0, cur_changeset |-> 0,
                               cur_uid |-> 0, cur_user_sid |-> 0, place |-> 0]]
    /\ wayit = [iter |-> 0]
    /\ relit = [iter |-> 0]
    /\ out = <<>>
    /\ panicked = FALSE

\* One entity of each kind in turn, with every shape of the info message.
InfoInputs ==
    \E i \in InfoFields :
        \/ Start(MkGroup(<<MkNode(7, I64(5), I64(6), <<3>>, <<4>>, i)>>,
                         EmptyDense, <<>>, <<>>), DefaultBlock)
        \/ Start(MkGroup(<<>>, EmptyDense,
                         <<MkWay(8, <<1, 2>>, <<3>>, <<4>>, i)>>, <<>>), DefaultBlock)
        \/ Start(MkGroup(<<>>, EmptyDense, <<>>,
                         <<MkRelation(9, <<1>>, <<0>>, <<1>>, <<3>>, <<4>>, i)>>),
                 DefaultBlock)

\* One entity of each kind in turn, with every keys and vals array.
TagInputs ==
    \E ks \in SeqsUpTo(TagSids, MaxTags), vs \in SeqsUpTo(TagSids, MaxTags) :
        \/ Start(MkGroup(<<MkNode(7, I64(5), I64(6), ks, vs, NoInfoFields)>>,
                         EmptyDense, <<>>, <<>>), DefaultBlock)
        \/ Start(MkGroup(<<>>, EmptyDense,
                         <<MkWay(8, <<1>>, ks, vs, NoInfoFields)>>, <<>>), DefaultBlock)
        \/ Start(MkGroup(<<>>, EmptyDense, <<>>,
                         <<MkRelation(9, <<>>, <<>>, <<>>, ks, vs, NoInfoFields)>>),
                 DefaultBlock)

\* Raw coordinates, granularities and offsets, among them values whose
\* scaled coordinate is negative, is no multiple of 100, or is outside i32.
RawCoords ==
    {I64(0), I64(1234), I64(-1234), I64(7), I64(-7), I64(-150), I64(2147483647),
     <<2^15, 0>>, <<-(2^15) - 1, LimbBase - 1>>}
Granularities == {100, 1, 1000}
Offsets == {I64(0), I64(50), I64(-150)}

CoordInputs ==
    \E lat \in RawCoords, lon \in {I64(-7), <<2^15, 0>>},
       gr \in Granularities, la \in Offsets, lo \in {I64(0), I64(50)} :
        Start(MkGroup(<<MkNode(7, lat, lon, <<>>, <<>>, NoInfoFields)>>,
                      EmptyDense, <<>>, <<>>),
              [stringtable |-> StringTable, granularity |-> gr,
               lat_offset |-> la, lon_offset |-> lo])

\* One or two ways, with every refs array.
WayInputs ==
    \E r1 \in SeqsUpTo(Deltas, MaxRefs) :
        \/ Start(MkGroup(<<>>, EmptyDense,
                         <<MkWay(8, r1, <<>>, <<>>, NoInfoFields)>>, <<>>),
                 DefaultBlock)
        \/ \E r2 \in SeqsUpTo(Deltas, MaxRefs) :
              Start(MkGroup(<<>>, EmptyDense,
                            <<MkWay(8, r1, <<>>, <<>>, NoInfoFields),
                              MkWay(9, r2, <<>>, <<>>, NoInfoFields)>>, <<>>),
                    DefaultBlock)

\* A relation with every memids, types and roles_sid array, alone or
\* after another relation.
RelationInputs ==
    \E ms \in SeqsUpTo(MemberDeltas, MaxMembers),
       ts \in SeqsUpTo(WireTypes, MaxMembers),
       rs \in SeqsUpTo(RoleSids, MaxMembers),
       first \in {<<>>, <<MkRelation(8, <<10, 5>>, <<1, 2>>, <<1, 0>>,
                                     <<>>, <<>>, NoInfoFields)>>} :
        Start(MkGroup(<<>>, EmptyDense, <<>>,
                      first \o <<MkRelation(9, ms, ts, rs, <<>>, <<>>, NoInfoFields)>>),
              DefaultBlock)

\* Columns of a dense bundle; a column of the model is a prefix of one.
BaseIds == <<10, 5, -3, 4>>
BaseLats == <<I64(1234), I64(-2000), I64(-7), I64(150)>>
BaseLons == <<I64(-150), I64(99), I64(2000), I64(1)>>
BaseVersion == <<1, 0, 2, 1>>
BaseTimestamp == <<100, 0, -10, 5>>
BaseChangeset == <<20, 3, 0, -1>>
BaseUid == <<0, 7, -7, 2>>
BaseUserSidGood == <<1, 2, -2, 3>>
BaseUserSidBad == <<1, -2, 4, 1>>
BaseVisible == <<TRUE, FALSE, TRUE, TRUE>>

InfoColumns == {"version", "timestamp", "changeset", "uid", "user_sid", "visible"}

\* The DenseInfo whose columns have the lengths len[c].
DenseInfoOf(len, user_sid) ==
    [version   |-> Take(BaseVersion, len["version"]),
     timestamp |-> Take(BaseTimestamp, len["timestamp"]),
     changeset |-> Take(BaseChangeset, len["changeset"]),
     uid       |-> Take(BaseUid, len["uid"]),
     user_sid  |-> Take(user_sid, len["user_sid"]),
     visible   |-> Take(BaseVisible, len["visible"])]

\* Columns of one length v, but for at most one that is shorter.
ColumnLengths ==
    {[c \in InfoColumns |-> IF c = short THEN w ELSE v] :
        v \in 0..MaxDense, short \in InfoColumns, w \in 0..MaxDense}

DenseInfos ==
    {None}
    \cup {Some(DenseInfoOf(len, BaseUserSidGood)) : len \in ColumnLengths}
    \cup {Some(DenseInfoOf([c \in InfoColumns |-> v], BaseUserSidBad)) :
             v \in 0..MaxDense}

\* Dense bundles whose columns have every combination of lengths.
DenseLengthInputs ==
    \E a \in 0..MaxDense, b \in 0..MaxDense, c \in 0..MaxDense,
       kv \in {<<>>, <<3, 4, 0>>, <<3, 4, 0, 4, 3, 3, 3, 0, 0>>},
       di \in DenseInfos :
        Start(MkGroup(<<>>,
                      [id |-> Take(BaseIds, a), lat |-> Take(BaseLats, b),
                       lon |-> Take(BaseLons, c), keys_vals |-> kv,
                       denseinfo |-> di],
                      <<>>, <<>>), DefaultBlock)

\* Dense bundles with every keys_vals stream.
DenseTagInputs ==
    \E n \in 0..MaxDense, kv \in SeqsUpTo(KvSids, MaxKv) :
        Start(MkGroup(<<>>,
                      [id |-> Take(BaseIds, n), lat |-> Take(BaseLats, n),
                       lon |-> Take(BaseLons, n), keys_vals |-> kv,
                       denseinfo |-> None],
                      <<>>, <<>>), DefaultBlock)

(***************************************************************************)
(* The dense encoding of a sequence of sparse nodes: the columns hold the  *)
(* differences of successive values, keys_vals the pairs of each node      *)
(* followed by a 0 (or nothing at all when no node has a tag), and the     *)
(* DenseInfo columns the metadata, when the nodes carry it.  Nodes that    *)
(* can be encoded so have as many vals as keys, no key 0, and either no    *)
(* info at all or every field of it set.                                   *)
(***************************************************************************)
i64_sub(a, b) == i64_add(a, i64_neg(b))

RECURSIVE Interleave(_, _)
Interleave(keys, vals) ==
    IF keys = <<>> THEN <<>>
    ELSE <<Head(keys), Head(vals)>> \o Interleave(Tail(keys), Tail(vals))

RECURSIVE KeysValsOf(_)
KeysValsOf(nodes) ==
    IF nodes = <<>> THEN <<>>
    ELSE Interleave(Head(nodes).keys, Head(nodes).vals) \o <<0>>
         \o KeysValsOf(Tail(nodes))

AllSet(m) ==
    /\ m.has_version /\ m.has_timestamp /\ m.has_changeset
    /\ m.has_uid /\ m.has_user_sid /\ m.has_visible

DenseEncodable(nodes) ==
    /\ \A i \in 1..Len(nodes) :
          /\ Len(nodes[i].keys) = Len(nodes[i].vals)
          /\ \A j \in 1..Len(nodes[i].keys) : nodes[i].keys[j] # 0
          /\ nodes[i].has_info => AllSet(nodes[i].info)
    /\ \A i, j \in 1..Len(nodes) : nodes[i].has_info = nodes[j].has_info

DenseEncode(nodes) ==
    LET N == Len(nodes)
        prev(f(_), i, zero) == IF i = 1 THEN zero ELSE f(nodes[i - 1])
        Id(n) == n.id
        Ts(n) == n.info.timestamp
        Cs(n) == n.info.changeset
        Uid(n) == n.info.uid
        Sid(n) == n.info.user_sid
        Lat(n) == n.lat
        Lon(n) == n.lon
    IN  [id  |-> [i \in 1..N |-> nodes[i].id - prev(Id, i, 0)],
         lat |-> [i \in 1..N |-> i64_sub(nodes[i].lat, prev(Lat, i, I64(0)))],
         lon |-> [i \in 1..N |-> i64_sub(nodes[i].lon, prev(Lon, i, I64(0)))],
         keys_vals |-> IF \A i \in 1..N : nodes[i].keys = <<>>
                       THEN <<>> ELSE KeysValsOf(nodes),
         denseinfo |->
            IF N = 0 \/ ~nodes[1].has_info THEN None
            ELSE Some([version   |-> [i \in 1..N |-> nodes[i].info.version],
                       timestamp |-> [i \in 1..N |-> nodes[i].info.timestamp - prev(Ts, i, 0)],
                       changeset |-> [i \in 1..N |-> nodes[i].info.changeset - prev(Cs, i, 0)],
                       uid       |-> [i \in 1..N |-> nodes[i].info.uid - prev(Uid, i, 0)],
                       user_sid  |-> [i \in 1..N |-> nodes[i].info.user_sid - prev(Sid, i, 0)],
                       visible   |-> [i \in 1..N |-> nodes[i].info.visible]])]

EncodableTags == {<<<<>>, <<>>>>, <<<<3>>, <<4>>>>, <<<<3, 4, 3>>, <<4, 0, 3>>>>}
FullInfos == {InfoMsg(Some(1), Some(100), Some(20), Some(0), Some(1), Some(TRUE)),
              InfoMsg(Some(0), Some(90), Some(23), Some(7), Some(3), Some(FALSE))}

EncodableNodes(infos) ==
    {MkNode(p[1], p[2], I64(-150), kv[1], kv[2], i) :
        p \in {<<10, I64(1234)>>, <<12, I64(-766)>>},
        kv \in EncodableTags, i \in infos}

OffsetBlock ==
    [stringtable |-> StringTable, granularity |-> 100,
     lat_offset |-> I64(50), lon_offset |-> I64(-150)]

\* The same nodes twice: as sparse nodes and as their dense encoding.
EquivalentInputs ==
    \E ns \in SeqsUpTo(EncodableNodes({NoInfoFields}), MaxPairs)
              \cup SeqsUpTo(EncodableNodes({[has_info |-> TRUE, info |-> m] :
                                               m \in FullInfos}), MaxPairs) :
        Start(MkGroup(ns, DenseEncode(ns), <<>>, <<>>), OffsetBlock)

\* Groups of several entities of every kind, told apart by their ids.
MixedInputs ==
    \E a \in 0..MaxEntities, b \in 0..MaxEntities, c \in 0..MaxEntities,
       d \in 0..MaxEntities, base \in {20, 30} :
        Start(MkGroup([i \in 1..a |-> MkNode(base + i, I64(i), I64(0), <<>>, <<>>,
                                             NoInfoFields)],
                      [id |-> Take(BaseIds, b), lat |-> Take(BaseLats, b),
                       lon |-> Take(BaseLons, b), keys_vals |-> <<>>,
                       denseinfo |-> None],
                      [i \in 1..c |-> MkWay(base - i, <<i>>, <<>>, <<>>, NoInfoFields)],
                      [i \in 1..d |-> MkRelation(base + 2 * i, <<i>>, <<1>>, <<1>>,
                                                 <<>>, <<>>, NoInfoFields)]),
              DefaultBlock)

(***************************************************************************)
(* Tags: a map from key to value, here a function on the set of its keys.  *)
(* insert overwrites the value of a key that is already there, and so does *)
(* collecting an iterator of pairs, pair after pair.                       *)
(***************************************************************************)
Tags_new == [k \in {} |-> <<>>]

Tags_insert(tags, k, v) ==
    [x \in (DOMAIN tags) \cup {k} |-> IF x = k THEN v ELSE tags[x]]

RECURSIVE Tags_from_iter(_)
Tags_from_iter(pairs) ==
    IF pairs = <<>> THEN Tags_new
    ELSE LET n == Len(pairs)
         IN  Tags_insert(Tags_from_iter(SubSeq(pairs, 1, n - 1)),
                         pairs[n][1], pairs[n][2])

Min(a, b) == IF a <= b THEN a ELSE b

\* keys.iter().zip(vals.iter()): as many pairs as the shorter array has.
zip(keys, vals) == [i \in 1..Min(Len(keys), Len(vals)) |-> <<keys[i], vals[i]>>]

make_tags_panics(keys, vals, b) ==
    \E i \in 1..Len(zip(keys, vals)) :
        index_panics(keys[i], b) \/ index_panics(vals[i], b)

make_tags(keys, vals, b) ==
    Tags_from_iter([i \in 1..Len(zip(keys, vals)) |->
                       <<make_string(keys[i], b), make_string(vals[i], b)>>])

(***************************************************************************)
(* Info.  A protobuf message keeps, for each optional field, whether it is *)
(* set (has_x) and its value (get_x, the default 0 or false when unset).   *)
(***************************************************************************)
NoInfo ==
    [version |-> None, timestamp |-> None, changeset |-> None,
     uid |-> None, user |-> None, visible |-> None]

make_info_panics(i, b) == i.has_user_sid /\ index_panics(i.user_sid, b)

\* make_info reading get_version() and get_timestamp() without asking
\* has_version() and has_timestamp().
make_info_unasked(i, b) ==
    [version   |-> Some(i.version),
     timestamp |-> Some(i.timestamp),
     changeset |-> IF i.has_changeset THEN Some(i.changeset) ELSE None,
     uid       |-> IF i.has_uid THEN Some(i.uid) ELSE None,
     user      |-> IF i.has_user_sid THEN Some(make_string(i.user_sid, b)) ELSE None,
     visible   |-> IF i.has_visible THEN Some(i.visible) ELSE None]

make_info(i, b) ==
    [version   |-> IF i.has_version THEN Some(i.version) ELSE None,
     timestamp |-> IF i.has_timestamp THEN Some(i.timestamp) ELSE None,
     changeset |-> IF i.has_changeset THEN Some(i.changeset) ELSE None,
     uid       |-> IF i.has_uid THEN Some(i.uid) ELSE None,
     user      |-> IF i.has_user_sid THEN Some(make_string(i.user_sid, b)) ELSE None,
     visible   |-> IF i.has_visible THEN Some(i.visible) ELSE None]

\* `if x.has_info() { make_info(x.get_info(), block) } else { Info { None.. } }`
entity_info(x, b) == IF x.has_info THEN make_info(x.info, b) ELSE NoInfo

entity_info_panics(x, b) == x.has_info /\ make_info_panics(x.info, b)

(***************************************************************************)
(* The result of one call of next(): a panic, or Some item or None, and    *)
(* the iterator's state after the call.  The state of an iterator whose    *)
(* next() panicked is never read again; it is left as it was.              *)
(***************************************************************************)
Panic(st) == [panic |-> TRUE, item |-> None, st |-> st]
Ret(item, st) == [panic |-> FALSE, item |-> item, st |-> st]

\* A slice iterator that stops one element early.
slice_has_next_short(arr, pos) == pos + 1 < Len(arr)

\* slice::Iter::next at position pos (the number of elements consumed).
slice_has_next(arr, pos) == pos < Len(arr)
slice_advance(arr, pos) == IF pos < Len(arr) THEN pos + 1 ELSE pos

(***************************************************************************)
(* SimpleNodes                                                             *)
(***************************************************************************)
SimpleNodes_item(n, b) ==
    [id            |-> n.id,
     decimicro_lat |-> make_lat(n.lat, b),
     decimicro_lon |-> make_lon(n.lon, b),
     tags          |-> make_tags(n.keys, n.vals, b),
     info          |-> entity_info(n, b)]

\* SimpleNodes::next passing over a node that cannot be decoded.
RECURSIVE SimpleNodes_next_skip(_, _, _)
SimpleNodes_next_skip(it, g, b) ==
    IF slice_has_next(g.nodes, it.iter)
    THEN LET n == g.nodes[it.iter + 1]
         IN  IF make_tags_panics(n.keys, n.vals, b) \/ entity_info_panics(n, b)
             THEN SimpleNodes_next_skip([iter |-> it.iter + 1], g, b)
             ELSE Ret(Some(SimpleNodes_item(n, b)), [iter |-> it.iter + 1])
    ELSE Ret(None, it)

SimpleNodes_next(it, g, b) ==
    IF slice_has_next(g.nodes, it.iter)
    THEN LET n == g.nodes[it.iter + 1]
         IN  IF make_tags_panics(n.keys, n.vals, b) \/ entity_info_panics(n, b)
             THEN Panic(it)
             ELSE Ret(Some(SimpleNodes_item(n, b)), [iter |-> it.iter + 1])
    ELSE Ret(None, it)

(***************************************************************************)
(* DenseInfoIter.  denseinfo is the SingularPtrField of the dense bundle:  *)
(* None, or Some record of the six columns.                                *)
(***************************************************************************)
\* di.timestamp[place] and the like: indexing a column past its end panics.
column_panics(di, place) ==
    \/ place >= Len(di.timestamp)
    \/ place >= Len(di.changeset)
    \/ place >= Len(di.uid)
    \/ place >= Len(di.user_sid)
    \/ place >= Len(di.visible)

\* DenseInfoIter_step without `self.place += 1`.
DenseInfoIter_step_stuck(it, di) ==
    [cur_timestamp |-> it.cur_timestamp + di.timestamp[it.place + 1],
     cur_changeset |-> it.cur_changeset + di.changeset[it.place + 1],
     cur_uid       |-> it.cur_uid + di.uid[it.place + 1],
     cur_user_sid  |-> it.cur_user_sid + di.user_sid[it.place + 1],
     place         |-> it.place]

DenseInfoIter_step(it, di) ==
    [cur_timestamp |-> it.cur_timestamp + di.timestamp[it.place + 1],
     cur_changeset |-> it.cur_changeset + di.changeset[it.place + 1],
     cur_uid       |-> it.cur_uid + di.uid[it.place + 1],
     cur_user_sid  |-> it.cur_user_sid + di.user_sid[it.place + 1],
     place         |-> it.place + 1]

DenseInfoIter_next(it, denseinfo, b) ==
    IF denseinfo # None
    THEN LET di == denseinfo[1]
         IN  IF it.place = Len(di.version) THEN Ret(None, it)
             ELSE IF column_panics(di, it.place) THEN Panic(it)
             ELSE LET st == DenseInfoIter_step(it, di)
                  IN  IF index_panics(st.cur_user_sid, b) THEN Panic(it)
                      ELSE Ret(Some([version   |-> Some(di.version[it.place + 1]),
                                     timestamp |-> Some(st.cur_timestamp),
                                     changeset |-> Some(st.cur_changeset),
                                     uid       |-> Some(st.cur_uid),
                                     user      |-> Some(make_string(st.cur_user_sid, b)),
                                     visible   |-> Some(di.visible[it.place + 1])]),
                               st)
    ELSE Ret(Some(NoInfo), it)

(***************************************************************************)
(* DenseNodes                                                              *)
(***************************************************************************)
\* dense_tags taking a value index 0 for the end of the tags as well.
RECURSIVE dense_tags_val0(_, _, _, _)
dense_tags_val0(kv, pos, tags, b) ==
    IF pos >= Len(kv) THEN [panic |-> FALSE, tags |-> tags, pos |-> pos]
    ELSE IF kv[pos + 1] = 0 THEN [panic |-> FALSE, tags |-> tags, pos |-> pos + 1]
    ELSE IF index_panics(kv[pos + 1], b) THEN [panic |-> TRUE, tags |-> tags, pos |-> pos]
    ELSE IF pos + 1 >= Len(kv) THEN [panic |-> FALSE, tags |-> tags, pos |-> pos + 1]
    ELSE IF kv[pos + 2] = 0 THEN [panic |-> FALSE, tags |-> tags, pos |-> pos + 2]
    ELSE IF index_panics(kv[pos + 2], b) THEN [panic |-> TRUE, tags |-> tags, pos |-> pos]
    ELSE dense_tags_val0(kv, pos + 2,
                         Tags_insert(tags, make_string(kv[pos + 1], b),
                                           make_string(kv[pos + 2], b)), b)

\* dense_tags leaving the terminating 0 in the stream.
RECURSIVE dense_tags_peek(_, _, _, _)
dense_tags_peek(kv, pos, tags, b) ==
    IF pos >= Len(kv) THEN [panic |-> FALSE, tags |-> tags, pos |-> pos]
    ELSE IF kv[pos + 1] = 0 THEN [panic |-> FALSE, tags |-> tags, pos |-> pos]
    ELSE IF index_panics(kv[pos + 1], b) THEN [panic |-> TRUE, tags |-> tags, pos |-> pos]
    ELSE IF pos + 1 >= Len(kv) THEN [panic |-> FALSE, tags |-> tags, pos |-> pos + 1]
    ELSE IF index_panics(kv[pos + 2], b) THEN [panic |-> TRUE, tags |-> tags, pos |-> pos]
    ELSE dense_tags_peek(kv, pos + 2,
                         Tags_insert(tags, make_string(kv[pos + 1], b),
                                           make_string(kv[pos + 2], b)), b)

\* The loop over keys_vals of one call of next(), from cursor pos on.
RECURSIVE dense_tags(_, _, _, _)
dense_tags(kv, pos, tags, b) ==
    IF pos >= Len(kv) THEN [panic |-> FALSE, tags |-> tags, pos |-> pos]
    ELSE IF kv[pos + 1] = 0 THEN [panic |-> FALSE, tags |-> tags, pos |-> pos + 1]
    ELSE IF index_panics(kv[pos + 1], b) THEN [panic |-> TRUE, tags |-> tags, pos |-> pos]
    ELSE IF pos + 1 >= Len(kv) THEN [panic |-> FALSE, tags |-> tags, pos |-> pos + 1]
    ELSE IF index_panics(kv[pos + 2], b) THEN [panic |-> TRUE, tags |-> tags, pos |-> pos]
    ELSE dense_tags(kv, pos + 2,
                    Tags_insert(tags, make_string(kv[pos + 1], b),
                                      make_string(kv[pos + 2], b)), b)

\* cur_id += did; cur_lat += dlat; cur_lon += dlon
DenseNodes_add(it, did, dlat, dlon) ==
    [it EXCEPT !.cur_id = it.cur_id + did,
               !.cur_lat = i64_add(it.cur_lat, dlat),
               !.cur_lon = i64_add(it.cur_lon, dlon)]

DenseNodes_next(it, g, b) ==
    LET d    == g.dense
        info == DenseInfoIter_next(it.denseinfo, d.denseinfo, b)
        adv  == [it EXCEPT !.dids = slice_advance(d.id, it.dids),
                           !.dlats = slice_advance(d.lat, it.dlats),
                           !.dlons = slice_advance(d.lon, it.dlons),
                           !.denseinfo = info.st]
    IN  IF info.panic THEN Panic(it)
        ELSE IF /\ slice_has_next(d.id, it.dids)
                /\ slice_has_next(d.lat, it.dlats)
                /\ slice_has_next(d.lon, it.dlons)
                /\ info.item # None
        THEN LET cur  == DenseNodes_add(adv, d.id[it.dids + 1],
                                        d.lat[it.dlats + 1], d.lon[it.dlons + 1])
                 scan == dense_tags(d.keys_vals, it.keys_vals, Tags_new, b)
             IN  IF scan.panic THEN Panic(it)
                 ELSE Ret(Some([id            |-> cur.cur_id,
                                decimicro_lat |-> make_lat(cur.cur_lat, b),
                                decimicro_lon |-> make_lon(cur.cur_lon, b),
                                tags          |-> scan.tags,
                                info          |-> info.item[1]]),
                          [cur EXCEPT !.keys_vals = scan.pos])
        ELSE Ret(None, adv)

(***************************************************************************)
(* Ways                                                                    *)
(***************************************************************************)
\* The closure without `n += dn`: each delta added to the first total.
RECURSIVE running_unsummed(_, _)
running_unsummed(deltas, n) ==
    IF deltas = <<>> THEN <<>>
    ELSE <<n + Head(deltas)>> \o running_unsummed(Tail(deltas), n)

\* The closure `|&dn| { n += dn; NodeId(n) }` mapped over the deltas, with
\* n the running total before the first of them.
RECURSIVE running(_, _)
running(deltas, n) ==
    IF deltas = <<>> THEN <<>>
    ELSE <<n + Head(deltas)>> \o running(Tail(deltas), n + Head(deltas))

Ways_item(w, b) ==
    [id    |-> w.id,
     nodes |-> running(w.refs, 0),
     tags  |-> make_tags(w.keys, w.vals, b),
     info  |-> entity_info(w, b)]

Ways_next(it, g, b) ==
    IF slice_has_next(g.ways, it.iter)
    THEN LET w == g.ways[it.iter + 1]
         IN  IF make_tags_panics(w.keys, w.vals, b) \/ entity_info_panics(w, b)
             THEN Panic(it)
             ELSE Ret(Some(Ways_item(w, b)), [iter |-> it.iter + 1])
    ELSE Ret(None, it)

(***************************************************************************)
(* Relations                                                               *)
(***************************************************************************)
\* The generated Relation_MemberType::from_i32 of the wire layer.
Relation_MemberType_from_i32(v) ==
    CASE v = 0 -> Some("NODE")
      [] v = 1 -> Some("WAY")
      [] v = 2 -> Some("RELATION")
      [] OTHER -> None

\* A type tag that is none of the enumerated values is a fatal decode error.
member_type_fatal(v) == Relation_MemberType_from_i32(v) = None

\* match t { NODE => NodeId(m).into(), WAY => ..., RELATION => ... }
member(t, m) ==
    CASE t = "NODE"     -> [kind |-> "Node", id |-> m]
      [] t = "WAY"      -> [kind |-> "Way", id |-> m]
      [] t = "RELATION" -> [kind |-> "Relation", id |-> m]

\* memids.zip(types).zip(roles_sid): as many members as the shortest has.
members_len(rel) == Min(Min(Len(rel.memids), Len(rel.types)), Len(rel.roles_sid))

\* The closure `|((&dm, &t), &role)| { m += dm; Ref { .. } }` from member i
\* on, with m the running total before it.
RECURSIVE Relations_refs(_, _, _, _)
Relations_refs(rel, i, m, b) ==
    IF i > members_len(rel) THEN <<>>
    ELSE <<[member |-> member(Relation_MemberType_from_i32(rel.types[i])[1],
                              m + rel.memids[i]),
            role   |-> make_string(rel.roles_sid[i], b)]>>
         \o Relations_refs(rel, i + 1, m + rel.memids[i], b)

Relations_refs_panics(rel, b) ==
    \E i \in 1..members_len(rel) :
        member_type_fatal(rel.types[i]) \/ index_panics(rel.roles_sid[i], b)

Relations_item(rel, b) ==
    [id   |-> rel.id,
     refs |-> Relations_refs(rel, 1, 0, b),
     tags |-> make_tags(rel.keys, rel.vals, b),
     info |-> entity_info(rel, b)]

\* Relations::next ending the sequence at a relation that cannot be decoded.
Relations_next_silent(it, g, b) ==
    IF slice_has_next(g.relations, it.iter)
    THEN LET rel == g.relations[it.iter + 1]
         IN  IF \/ Relations_refs_panics(rel, b)
                \/ make_tags_panics(rel.keys, rel.vals, b)
                \/ entity_info_panics(rel, b)
             THEN Ret(None, it)
             ELSE Ret(Some(Relations_item(rel, b)), [iter |-> it.iter + 1])
    ELSE Ret(None, it)

Relations_next(it, g, b) ==
    IF slice_has_next(g.relations, it.iter)
    THEN LET rel == g.relations[it.iter + 1]
         IN  IF \/ Relations_refs_panics(rel, b)
                \/ make_tags_panics(rel.keys, rel.vals, b)
                \/ entity_info_panics(rel, b)
             THEN Panic(it)
             ELSE Ret(Some(Relations_item(rel, b)), [iter |-> it.iter + 1])
    ELSE Ret(None, it)

(***************************************************************************)
(* iter(): Chain<Chain<Map<Nodes>, Map<Ways>>, Map<Relations>>, with Nodes *)
(* = Chain<SimpleNodes, DenseNodes>.  A Chain advances its first iterator  *)
(* until it returns None, drops it, and goes on with the second.  From     *)
(* wraps each object in the OsmObj variant of its type.                    *)
(***************************************************************************)
OsmObj_from(kind, obj) == [kind |-> kind, obj |-> obj]

\* The iterator a Chain goes on with when the one at c has returned None.
chain_after(c) ==
    LET i == CHOOSE j \in 1..Len(iter_chain) : iter_chain[j] = c
    IN  IF i < Len(iter_chain) THEN iter_chain[i + 1] ELSE "done"

\* What a call of next() on the iterator at this place of the chain does.
Advance(r, kind) ==
    IF r.panic THEN /\ panicked' = TRUE
                    /\ UNCHANGED <<chain, out>>
    ELSE IF r.item = None THEN /\ chain' = chain_after(chain)
                               /\ UNCHANGED <<out, panicked>>
    ELSE /\ out' = Append(out, OsmObj_from(kind, r.item[1]))
         /\ UNCHANGED <<chain, panicked>>

SimpleNodesNext ==
    /\ chain = "simple" /\ ~panicked
    /\ LET r == SimpleNodes_next(simple, group, block)
       IN  simple' = r.st /\ Advance(r, "Node")
    /\ UNCHANGED <<block, group, dense, wayit, relit>>

DenseNodesNext ==
    /\ chain = "dense" /\ ~panicked
    /\ LET r == DenseNodes_next(dense, group, block)
       IN  dense' = r.st /\ Advance(r, "Node")
    /\ UNCHANGED <<block, group, simple, wayit, relit>>

WaysNext ==
    /\ chain = "ways" /\ ~panicked
    /\ LET r == Ways_next(wayit, group, block)
       IN  wayit' = r.st /\ Advance(r, "Way")
    /\ UNCHANGED <<block, group, simple, dense, relit>>

RelationsNext ==
    /\ chain = "relations" /\ ~panicked
    /\ LET r == Relations_next(relit, group, block)
       IN  relit' = r.st /\ Advance(r, "Relation")
    /\ UNCHANGED <<block, group, simple, dense, wayit>>

Next == SimpleNodesNext \/ DenseNodesNext \/ WaysNext \/ RelationsNext

Init ==
    \/ InfoInputs \/ TagInputs \/ CoordInputs \/ WayInputs \/ RelationInputs
    \/ DenseLengthInputs \/ DenseTagInputs \/ EquivalentInputs \/ MixedInputs

Spec == Init /\ [][Next]_vars

(***************************************************************************)
(* What the properties below speak of.                                     *)
(***************************************************************************)
OfKind(kind) == LET is(o) == o.kind = kind IN SelectSeq(out, is)

\* The nodes yielded by SimpleNodes and by DenseNodes, the ways and the
\* relations yielded, each in the order of yielding.  simple.iter counts
\* the sparse nodes yielded.
SparseOut == SubSeq(OfKind("Node"), 1, simple.iter)
DenseOut == SubSeq(OfKind("Node"), simple.iter + 1, Len(OfKind("Node")))
WaysOut == OfKind("Way")
RelationsOut == OfKind("Relation")

\* The dense sequence has reported exhaustion: the chain has gone on.
DenseExhausted == chain \in {"ways", "relations", "done"}

RECURSIVE SumTo(_, _)
SumTo(s, i) == IF i = 0 THEN 0 ELSE SumTo(s, i - 1) + s[i]

RECURSIVE WideSumTo(_, _)
WideSumTo(s, i) == IF i = 0 THEN I64(0) ELSE i64_add(WideSumTo(s, i - 1), s[i])

Min3(a, b, c) == Min(Min(a, b), c)

OutOfRange(k) == k < 0 \/ k >= Len(block.stringtable)

Resolved(k) == from_utf8_lossy(block.stringtable[k + 1])

\* The columns of the dense bundle all have length N.
EqualColumns(d, N) ==
    /\ Len(d.id) = N /\ Len(d.lat) = N /\ Len(d.lon) = N
    /\ d.denseinfo # None =>
          LET di == d.denseinfo[1]
          IN  /\ Len(di.version) = N /\ Len(di.timestamp) = N
              /\ Len(di.changeset) = N /\ Len(di.uid) = N
              /\ Len(di.user_sid) = N /\ Len(di.visible) = N

\* Every string-table index the dense bundle refers to is in the table.
DenseIndicesValid(d) ==
    /\ \A j \in 1..Len(d.keys_vals) : ~OutOfRange(d.keys_vals[j])
    /\ d.denseinfo # None =>
          \A i \in 1..Len(d.denseinfo[1].user_sid) :
              ~OutOfRange(SumTo(d.denseinfo[1].user_sid, i))

\* Node n is what position i of the columns of d holds.
AtPosition(n, d, i) ==
    /\ n.id = SumTo(d.id, i)
    /\ n.decimicro_lat = make_lat(WideSumTo(d.lat, i), block)
    /\ n.decimicro_lon = make_lon(WideSumTo(d.lon, i), block)
    /\ IF d.denseinfo = None THEN n.info = NoInfo
       ELSE LET di == d.denseinfo[1]
            IN  /\ n.info.version = Some(di.version[i])
                /\ n.info.timestamp = Some(SumTo(di.timestamp, i))
                /\ n.info.changeset = Some(SumTo(di.changeset, i))
                /\ n.info.uid = Some(SumTo(di.uid, i))
                /\ n.info.user = Some(Resolved(SumTo(di.user_sid, i)))
                /\ n.info.visible = Some(di.visible[i])

\* C1: a dense bundle whose id, lat and lon columns (and metadata columns,
\* when present) all have length N yields exactly N nodes before it reports
\* exhaustion, the i-th of them holding what position i of the columns
\* holds; with every string index in the table, no call of next() panics.
C1_DenseYieldsColumns ==
    LET d == group.dense
        N == Len(d.id)
    IN  EqualColumns(d, N) =>
          /\ Len(DenseOut) <= N
          /\ \A i \in 1..Len(DenseOut) : AtPosition(DenseOut[i].obj, d, i)
          /\ DenseExhausted => Len(DenseOut) = N
          /\ DenseIndicesValid(d) => ~(panicked /\ chain = "dense")

C1_Witness ==
    /\ DenseExhausted
    /\ EqualColumns(group.dense, 3)
    /\ group.dense.denseinfo # None
    /\ Len(DenseOut) = 3

\* C2: sparse nodes and their dense encoding decode to nodes that are equal
\* in id, decimicro_lat, decimicro_lon, tags and each of the six fields of
\* info.
C2_SparseDenseEqual ==
    (DenseEncodable(group.nodes) /\ group.dense = DenseEncode(group.nodes)) =>
        /\ ~(panicked /\ chain \in {"simple", "dense"})
        /\ \A i \in 1..Len(DenseOut) :
              LET s == SparseOut[i].obj
                  d == DenseOut[i].obj
              IN  /\ s.id = d.id
                  /\ s.decimicro_lat = d.decimicro_lat
                  /\ s.decimicro_lon = d.decimicro_lon
                  /\ s.tags = d.tags
                  /\ s.info.version = d.info.version
                  /\ s.info.timestamp = d.info.timestamp
                  /\ s.info.changeset = d.info.changeset
                  /\ s.info.uid = d.info.uid
                  /\ s.info.user = d.info.user
                  /\ s.info.visible = d.info.visible
        /\ DenseExhausted => Len(DenseOut) = Len(group.nodes)
                             /\ Len(SparseOut) = Len(group.nodes)

C2_Witness ==
    /\ DenseExhausted
    /\ Len(group.nodes) = 2
    /\ DenseEncodable(group.nodes)
    /\ group.dense = DenseEncode(group.nodes)
    /\ Len(DenseOut) = 2
    /\ group.nodes[2].has_info
    /\ group.nodes[2].keys = <<3, 4, 3>>
    /\ group.nodes[1].id # group.nodes[2].id

Rank(kind) == CASE kind = "Node" -> 1 [] kind = "Way" -> 2 [] kind = "Relation" -> 3

\* C3: iter() yields the sparse nodes, then the dense nodes, then the ways,
\* then the relations: nothing of a later kind comes before anything of an
\* earlier kind, each kind comes in the order of its array of the group,
\* and at the end every sparse node, way and relation has been yielded.
C3_KindsInOrder ==
    /\ \A i, j \in 1..Len(out) : i < j => Rank(out[i].kind) <= Rank(out[j].kind)
    /\ Len(SparseOut) <= Len(group.nodes)
    /\ Len(WaysOut) <= Len(group.ways)
    /\ Len(RelationsOut) <= Len(group.relations)
    /\ \A i \in 1..Len(SparseOut) : SparseOut[i].obj.id = group.nodes[i].id
    /\ \A i \in 1..Len(DenseOut) : DenseOut[i].obj.id = SumTo(group.dense.id, i)
    /\ \A i \in 1..Len(WaysOut) : WaysOut[i].obj.id = group.ways[i].id
    /\ \A i \in 1..Len(RelationsOut) : RelationsOut[i].obj.id = group.relations[i].id
    /\ Len(DenseOut) > 0 => Len(SparseOut) = Len(group.nodes)
    /\ Len(WaysOut) > 0 => Len(SparseOut) = Len(group.nodes) /\ DenseExhausted
    /\ Len(RelationsOut) > 0 => Len(WaysOut) = Len(group.ways)
    /\ chain = "done" =>
          /\ Len(SparseOut) = Len(group.nodes)
          /\ Len(WaysOut) = Len(group.ways)
          /\ Len(RelationsOut) = Len(group.relations)

C3_Witness ==
    /\ chain = "done"
    /\ Len(SparseOut) = 2 /\ Len(DenseOut) = 2
    /\ Len(WaysOut) = 2 /\ Len(RelationsOut) = 2

\* What make_info must give for the field of entity x that is set iff has,
\* with the value v.
FieldDecoded(has, v, got) == IF has THEN got = Some(v) ELSE got = None

InfoDecoded(x, info) ==
    LET m == x.info
        h == x.has_info
    IN  /\ FieldDecoded(h /\ m.has_version, m.version, info.version)
        /\ FieldDecoded(h /\ m.has_timestamp, m.timestamp, info.timestamp)
        /\ FieldDecoded(h /\ m.has_changeset, m.changeset, info.changeset)
        /\ FieldDecoded(h /\ m.has_uid, m.uid, info.uid)
        /\ IF h /\ m.has_user_sid THEN info.user = Some(Resolved(m.user_sid))
                                  ELSE info.user = None
        /\ FieldDecoded(h /\ m.has_visible, m.visible, info.visible)

\* The i-th node of a dense bundle: without a DenseInfo no field is set;
\* with one, every column has an entry for the node and every field is set.
DenseInfoDecoded(d, i, info) ==
    IF d.denseinfo = None THEN info = NoInfo
    ELSE LET di == d.denseinfo[1]
         IN  /\ i <= Len(di.version) /\ i <= Len(di.timestamp)
             /\ i <= Len(di.changeset) /\ i <= Len(di.uid)
             /\ i <= Len(di.user_sid) /\ i <= Len(di.visible)
             /\ info.version = Some(di.version[i])
             /\ info.visible = Some(di.visible[i])
             /\ info.timestamp # None /\ info.changeset # None
             /\ info.uid # None /\ info.user # None

\* C4: in every node, way and relation yielded, a metadata field that is
\* absent in the input is None and one that is present is Some of its value,
\* zero included; an entity without an info message, and every node of a
\* dense bundle without a DenseInfo, has all six fields None.
C4_AbsentIsUnset ==
    /\ \A i \in 1..Len(SparseOut) : InfoDecoded(group.nodes[i], SparseOut[i].obj.info)
    /\ \A i \in 1..Len(WaysOut) : InfoDecoded(group.ways[i], WaysOut[i].obj.info)
    /\ \A i \in 1..Len(RelationsOut) :
          InfoDecoded(group.relations[i], RelationsOut[i].obj.info)
    /\ \A i \in 1..Len(DenseOut) :
          DenseInfoDecoded(group.dense, i, DenseOut[i].obj.info)

C4_Witness ==
    /\ Len(WaysOut) = 1
    /\ group.ways[1].has_info
    /\ ~group.ways[1].info.has_version
    /\ group.ways[1].info.has_timestamp /\ group.ways[1].info.timestamp = 0
    /\ WaysOut[1].obj.info.version = None
    /\ WaysOut[1].obj.info.timestamp = Some(0)

\* A member of rel, among those the zip reaches, whose type tag is none of
\* 0 (node), 1 (way), 2 (relation).
HasUnknownType(rel) ==
    \E i \in 1..members_len(rel) : rel.types[i] \notin {0, 1, 2}

KindOfType(t) == CASE t = 0 -> "Node" [] t = 1 -> "Way" [] t = 2 -> "Relation"

NextRelationUnknownType ==
    /\ chain = "relations"
    /\ relit.iter < Len(group.relations)
    /\ HasUnknownType(group.relations[relit.iter + 1])

EntityOutOfRange(x) ==
    \/ \E i \in 1..Min(Len(x.keys), Len(x.vals)) :
          OutOfRange(x.keys[i]) \/ OutOfRange(x.vals[i])
    \/ x.has_info /\ x.info.has_user_sid /\ OutOfRange(x.info.user_sid)

RelationOutOfRange(rel) ==
    \/ EntityOutOfRange(rel)
    \/ \E i \in 1..members_len(rel) : OutOfRange(rel.roles_sid[i])

\* The DenseInfo has a record for the next node, every column included.
DenseInfoHasNext ==
    LET di == group.dense.denseinfo[1]
        p == dense.denseinfo.place
    IN  /\ p < Len(di.version) /\ p < Len(di.timestamp) /\ p < Len(di.changeset)
        /\ p < Len(di.uid) /\ p < Len(di.user_sid) /\ p < Len(di.visible)

\* The next record of the DenseInfo has a user index outside the table.
DenseUserOutOfRange ==
    /\ group.dense.denseinfo # None
    /\ DenseInfoHasNext
    /\ OutOfRange(SumTo(group.dense.denseinfo[1].user_sid, dense.denseinfo.place + 1))

\* The positions of keys_vals that a scan from cursor p resolves: those
\* with no 0 at the place of a key from p up to them.
Scanned(kv, p) ==
    {j \in (p + 1)..Len(kv) : \A t \in (p + 1)..j : (t - p) % 2 = 1 => kv[t] # 0}

\* The next dense node exists and its tags have an index outside the table.
DenseTagOutOfRange ==
    LET d == group.dense
    IN  /\ dense.dids < Len(d.id) /\ dense.dlats < Len(d.lat) /\ dense.dlons < Len(d.lon)
        /\ d.denseinfo # None => DenseInfoHasNext /\ ~DenseUserOutOfRange
        /\ \E j \in Scanned(d.keys_vals, dense.keys_vals) : OutOfRange(d.keys_vals[j])

\* The next call of next() resolves an index outside the string table.
NextOutOfRange ==
    \/ /\ chain = "simple" /\ simple.iter < Len(group.nodes)
       /\ EntityOutOfRange(group.nodes[simple.iter + 1])
    \/ /\ chain = "dense"
       /\ DenseUserOutOfRange \/ DenseTagOutOfRange
    \/ /\ chain = "ways" /\ wayit.iter < Len(group.ways)
       /\ EntityOutOfRange(group.ways[wayit.iter + 1])
    \/ /\ chain = "relations" /\ relit.iter < Len(group.relations)
       /\ RelationOutOfRange(group.relations[relit.iter + 1])

\* C6: a call of next() that resolves a string-table index outside the
\* table (a tag key or value, a role, a user index) fails and yields
\* nothing, and after a failure nothing more is yielded.
C6_BadIndexFatal ==
    [][/\ (~panicked /\ NextOutOfRange) => (panicked' /\ out' = out)
       /\ panicked => (panicked' /\ out' = out)]_vars

C6_Witness ==
    /\ panicked
    /\ chain = "dense"
    /\ DenseTagOutOfRange
    /\ Len(DenseOut) = 1
    /\ Len(group.dense.id) = 3

\* a <= b for two-limb values.
i64_le(a, b) == a[1] < b[1] \/ (a[1] = b[1] /\ a[2] <= b[2])

\* q is v / 100 truncated toward zero: v = 100 * q + r with |r| < 100 and
\* r of the sign of v.
IsQuotient(q, v) ==
    LET d == i64_sub(v, i64_mul(100, q))
        r == d[1] * LimbBase + d[2]
    IN  /\ d[1] \in {-1, 0}
        /\ r \in -99..99
        /\ r > 0 => i64_le(I64(0), v)
        /\ r < 0 => i64_le(v, I64(0))

\* offset + granularity * raw
Scaled(raw, offset) == i64_add(offset, i64_mul(block.granularity, raw))

\* v / 100 is within i32.
QuotientFitsI32(v) ==
    /\ i64_le(i64_add(i64_mul(100, <<-(2^15), 0>>), I64(-99)), v)
    /\ i64_le(v, i64_add(i64_mul(100, <<2^15 - 1, LimbBase - 1>>), I64(99)))

\* The raw coordinates of the i-th sparse and of the i-th dense node.
SparseRaw(i) == [lat |-> group.nodes[i].lat, lon |-> group.nodes[i].lon]
DenseRaw(i) == [lat |-> WideSumTo(group.dense.lat, i),
                lon |-> WideSumTo(group.dense.lon, i)]

\* C7 as stated: for every raw value, offset and granularity the decoded
\* latitude and longitude are (offset + granularity * raw) / 100, truncated
\* toward zero, each with its own offset.
C7_ScaledExactly ==
    /\ \A i \in 1..Len(SparseOut) :
          /\ IsQuotient(I64(SparseOut[i].obj.decimicro_lat),
                        Scaled(SparseRaw(i).lat, block.lat_offset))
          /\ IsQuotient(I64(SparseOut[i].obj.decimicro_lon),
                        Scaled(SparseRaw(i).lon, block.lon_offset))
    /\ \A i \in 1..Len(DenseOut) :
          /\ IsQuotient(I64(DenseOut[i].obj.decimicro_lat),
                        Scaled(DenseRaw(i).lat, block.lat_offset))
          /\ IsQuotient(I64(DenseOut[i].obj.decimicro_lon),
                        Scaled(DenseRaw(i).lon, block.lon_offset))

\* c is v / 100 truncated toward zero when that is within i32, and its low
\* 32 bits in any case: the quotient is c + k * 2^32 for some k.
ScaledTo(c, v) ==
    IF QuotientFitsI32(v)
    THEN IsQuotient(I64(c), v)
    ELSE \E k \in -16..16 : IsQuotient(<<I64(c)[1] + k * LimbBase, I64(c)[2]>>, v)

\* C7 amended: the decoded latitude and longitude are (offset + granularity
\* * raw) / 100, truncated toward zero, each with its own offset, whenever
\* that quotient is within the signed 32-bit range; outside of it they are
\* its low 32 bits.
C7_ScaledWithinI32 ==
    /\ \A i \in 1..Len(SparseOut) :
          /\ ScaledTo(SparseOut[i].obj.decimicro_lat,
                      Scaled(SparseRaw(i).lat, block.lat_offset))
          /\ ScaledTo(SparseOut[i].obj.decimicro_lon,
                      Scaled(SparseRaw(i).lon, block.lon_offset))
    /\ \A i \in 1..Len(DenseOut) :
          /\ ScaledTo(DenseOut[i].obj.decimicro_lat,
                      Scaled(DenseRaw(i).lat, block.lat_offset))
          /\ ScaledTo(DenseOut[i].obj.decimicro_lon,
                      Scaled(DenseRaw(i).lon, block.lon_offset))

C7_Witness ==
    /\ Len(SparseOut) = 1
    /\ block.granularity = 100
    /\ block.lat_offset = I64(0) /\ block.lon_offset = I64(50)
    /\ group.nodes[1].lat = I64(1234) /\ group.nodes[1].lon = I64(-7)
    /\ SparseOut[1].obj.decimicro_lat = 1234
    /\ SparseOut[1].obj.decimicro_lon = -6

\* C8: dense node ids, way node references and relation member ids are
\* running sums of their deltas, starting from 0 in each way and each
\* relation and at the head of the dense bundle.
C8_DeltasAccumulate ==
    /\ \A i \in 1..Len(DenseOut) :
          DenseOut[i].obj.id = SumTo(group.dense.id, i)
    /\ \A k \in 1..Len(WaysOut) :
          LET w == group.ways[k]
              o == WaysOut[k].obj
          IN  /\ Len(o.nodes) = Len(w.refs)
              /\ \A i \in 1..Len(w.refs) : o.nodes[i] = SumTo(w.refs, i)
    /\ \A k \in 1..Len(RelationsOut) :
          LET rel == group.relations[k]
              o == RelationsOut[k].obj
          IN  /\ Len(o.refs) = members_len(rel)
              /\ \A i \in 1..members_len(rel) :
                    o.refs[i].member.id = SumTo(rel.memids, i)

C8_Witness ==
    /\ Len(WaysOut) = 2
    /\ group.ways[1].refs = <<10, 5, -3>>
    /\ WaysOut[1].obj.nodes = <<10, 15, 12>>
    /\ group.ways[2].refs = <<5, 5>>
    /\ WaysOut[2].obj.nodes = <<5, 10>>

\* The places of keys between cursor p and position t of a tag stream.
KeyPlaces(p, t) == {j \in (p + 1)..(t - 1) : (j - p) % 2 = 1}

\* t is the first place of a key after cursor p that holds 0.
IsTerminator(kv, p, t) ==
    /\ t \in (p + 1)..Len(kv)
    /\ (t - p) % 2 = 1
    /\ kv[t] = 0
    /\ \A j \in KeyPlaces(p, t) : kv[j] # 0

\* tags is the map of the pairs between p and t, the last pair of a key
\* giving its value.
TagsOfPairs(tags, kv, p, t) ==
    /\ DOMAIN tags = {Resolved(kv[j]) : j \in KeyPlaces(p, t)}
    /\ \A j \in KeyPlaces(p, t) :
          \/ tags[Resolved(kv[j])] = Resolved(kv[j + 1])
          \/ \E l \in KeyPlaces(p, t) : l > j /\ Resolved(kv[l]) = Resolved(kv[j])

\* C9: a dense node's tags are the pairs of keys_vals from the cursor up to
\* the first 0 at the place of a key; that 0 is consumed, so that the next
\* node's scan starts right after it.
C9_TagsUpToTerminator ==
    [][(chain = "dense" /\ Len(out') = Len(out) + 1) =>
          LET kv == group.dense.keys_vals
              p == dense.keys_vals
          IN  \A t \in (p + 1)..Len(kv) :
                  IsTerminator(kv, p, t) =>
                      /\ dense'.keys_vals = t
                      /\ TagsOfPairs(out'[Len(out')].obj.tags, kv, p, t)]_vars

C9_Witness ==
    /\ chain = "dense"
    /\ group.dense.keys_vals = <<3, 4, 0, 0, 3>>
    /\ Len(DenseOut) = 2
    /\ dense.keys_vals = 4
    /\ DOMAIN DenseOut[1].obj.tags = {<<107>>}
    /\ DenseOut[1].obj.tags[<<107>>] = <<118, 65533>>
    /\ DOMAIN DenseOut[2].obj.tags = {}

DenseCount ==
    LET d == group.dense
        n == Min3(Len(d.id), Len(d.lat), Len(d.lon))
    IN  IF d.denseinfo = None THEN n ELSE Min(n, Len(d.denseinfo[1].version))

\* What makes a call of DenseNodes::next fail: an index outside the string
\* table, or a DenseInfo column shorter than the version column.
DenseFailureCause ==
    LET d == group.dense
    IN  \/ \E j \in 1..Len(d.keys_vals) : OutOfRange(d.keys_vals[j])
        \/ /\ d.denseinfo # None
           /\ LET di == d.denseinfo[1]
              IN  \/ \E c \in {Len(di.timestamp), Len(di.changeset), Len(di.uid),
                               Len(di.user_sid), Len(di.visible)} :
                        c < Len(di.version)
                  \/ \E i \in 1..Len(di.user_sid) : OutOfRange(SumTo(di.user_sid, i))

====
